---- MODULE Spec2Model ----
(***************************************************************************)
(* CommanderNode (src/py/lander/nodes/commander.py): the flight state      *)
(* machine of the lander, its mavros/tracker callbacks, the control loop   *)
(* and relinquish_control.                                                 *)
(*                                                                         *)
(* The node has no lock.  rospy delivers the callbacks of each Subscriber  *)
(* on that subscription's own receive thread, while run() loops on the     *)
(* main thread and relinquish_control polls on its caller's thread, so the *)
(* model has one process per thread and one step per statement of the      *)
(* source that reads or writes self.state / self.controller or calls a     *)
(* controller.                                                             *)
(***************************************************************************)
EXTENDS Naturals, Sequences, FiniteSets, TLC

VARIABLES
    state,        \* self.state ("UNSET" before line 52 has run)
    controller,   \* self.controller ("UNSET" before line 51, then "None")
    pc,           \* per thread: the source line it is about to execute
    new_state,    \* per thread: the argument of its transition_to_state call
    ret,          \* per thread: where its transition_to_state call returns
    msg,          \* msg.mode of the /mavros/state message being handled
    seen,         \* the value of self.state the mode handler read
    shutdown,     \* rospy.is_shutdown()
    rqpc,         \* relinquish_control: the line its caller is about to execute
    rqTrace,      \* relinquish_control: vehicle commands, polls and sleeps of
                  \* the running call, in order
    rqAbort,      \* <<k>>: the call had begun k sleeps when PENDING was last
                  \* written to self.state (<<>>: not written during the call)
    rqSeen,       \* the value of self.state read by the poll that ended the wait
    lifecycle,    \* whether this behaviour records `entered` and `calls`
    entered,      \* controllers whose enter() ran and whose exit() has not
    calls,        \* per thread: the exit() and enter() calls made so far by
                  \* the transition_to_state call of the handler it is in
    ticks,        \* iterations of run()'s loop begun since the last message,
                  \* transition or relinquish_control call (at most MaxTicks)
    runs          \* <<self.state, self.controller>> at each controller.run()
                  \* call of those iterations

node == <<state, controller>>
local == <<pc, new_state, ret>>
mode == <<msg, seen>>
rq == <<rqpc, rqTrace, rqAbort, rqSeen>>
life == <<lifecycle, entered, calls>>
tick == <<ticks, runs>>

vars == <<node, local, mode, shutdown, rq, life, tick>>

\* ---------------------------------------------------------------- bounds
\* sleeps of one relinquish_control call that rqTrace records; the wait goes
\* on past them, unrecorded
MaxSleeps == 3

\* threads that may be inside CommanderNode code at the same time
MaxBusy == 2

\* consecutive undisturbed loop iterations that `ticks` and `runs` record
MaxTicks == 3

\* ------------------------------------------------------------- constants
INIT == "INIT"
PENDING == "PENDING"
SEEK == "SEEK"
APPROACH == "APPROACH"
DESCEND == "DESCEND"
LAND == "LAND"

FlightState == {INIT, PENDING, SEEK, APPROACH, DESCEND, LAND}

GUIDED_MODES == {"GUIDED", "OFFBOARD"}

\* mode strings the FCU may report: the guided ones, the hold mode that
\* relinquish_control asks for, and "??" for every other or unknown string
Modes == GUIDED_MODES \cup {"POSHOLD", "??"}

controllers ==
    [s \in FlightState \ {INIT} |->
        CASE s = PENDING  -> "PendingController"
          [] s = SEEK     -> "SeekController"
          [] s = APPROACH -> "ApproachController"
          [] s = DESCEND  -> "DescendController"
          [] s = LAND     -> "LandController"]

Controllers == {controllers[s] : s \in DOMAIN controllers}

ActivePhases == {SEEK, APPROACH, DESCEND, LAND}

\* the threads that run CommanderNode code which can call transition_to_state
Threads == {"main", "mode", "track"}

\* transitions a guidance controller may request through its back-reference
\* to the Commander, from run() or handle_track_message: the next phase of
\* the landing, or back to SEEK when Approach has lost the target
Requests(c) ==
    CASE c = "SeekController"     -> {APPROACH}
      [] c = "ApproachController" -> {DESCEND, SEEK}
      [] c = "DescendController"  -> {LAND}
      [] OTHER                    -> {}

Goto(t, l) == pc' = [pc EXCEPT ![t] = l]

\* between ticks the main thread sleeps; a subscription thread without a
\* message waits
Idle(t) ==
    pc[t] \in (IF t = "main" THEN {"r112", "exit", "cfail", "rfail"} ELSE {"idle"})

Busy == Cardinality({t \in Threads : ~Idle(t)}) + (IF rqpc = "idle" THEN 0 ELSE 1)

SleepsDone == Len(SelectSeq(rqTrace, LAMBDA e : e = "sleep"))

\* sleeps begun so far by the running relinquish_control call
SleepsBegun ==
    IF rqpc = "q106" /\ SleepsDone < MaxSleeps THEN SleepsDone + 1 ELSE SleepsDone

\* lines 47-48 have registered both subscriptions and line 51 is next: the
\* callbacks can run from here on
InitNode ==
    /\ state = "UNSET"
    /\ controller = "UNSET"
    /\ pc = [t \in Threads |-> IF t = "main" THEN "c51" ELSE "idle"]
    /\ new_state = [t \in Threads |-> "none"]
    /\ ret = [t \in Threads |-> "none"]
    /\ msg = "none"
    /\ seen = "none"
    /\ shutdown = FALSE
    /\ rqpc = "idle"
    /\ rqTrace = <<>>
    /\ rqAbort = <<>>
    /\ rqSeen = "none"
    /\ entered = {}
    /\ calls = [t \in Threads |-> <<>>]
    /\ ticks = 0
    /\ runs = <<>>

Init == InitNode /\ lifecycle = FALSE

\* the same program, with the enter()/exit() history recorded
InitLifecycle == InitNode /\ lifecycle = TRUE

\* ------------------------------------------------- transition_to_state
\* the call itself: bind new_state, remember the return point
CallTransition(t, s, r) ==
    /\ calls' = [calls EXCEPT ![t] = <<>>]
    /\ new_state' = [new_state EXCEPT ![t] = s]
    /\ ret' = [ret EXCEPT ![t] = r]
    /\ Goto(t, "t84")

\* the main thread is inside __init__, or __init__ raised
InCtor ==
    pc["main"] \in {"c51", "c52", "c53", "c54", "cfail"} \/ ret["main"] = "c54"

CtorDone == ~InCtor

\* where an exception raised on thread t goes: no function of commander.py
\* catches one.  rospy logs an exception that leaves a subscription callback
\* and the subscription's thread goes on; on the main thread it leaves
\* __init__ or run() and line 119 or 120, and the process ends
RaiseTarget(t) ==
    CASE t = "mode"  -> "hfail"
      [] t = "track" -> "idle"
      [] t = "main"  -> IF InCtor THEN "cfail" ELSE "rfail"

\* an exception propagates out of thread t's call stack; the end of the
\* process runs rospy's exit hook, after which rospy.is_shutdown() is true
Raise(t) ==
    /\ new_state' = [new_state EXCEPT ![t] = "none"]
    /\ ret' = [ret EXCEPT ![t] = "none"]
    /\ Goto(t, RaiseTarget(t))
    /\ shutdown' = (shutdown \/ t = "main")

\* lines 84-85: if self.controller is not None: self.controller.exit();
\* exit() returns, or raises and lines 87-89 do not run
T84(t) ==
    /\ pc[t] = "t84"
    /\ \E raised \in IF controller = "None" THEN {FALSE} ELSE BOOLEAN :
         /\ IF raised
            THEN Raise(t)
            ELSE Goto(t, "t87") /\ UNCHANGED <<new_state, ret, shutdown>>
         /\ IF lifecycle /\ controller # "None"
            THEN /\ entered' = entered \ {controller}
                 /\ calls' = [calls EXCEPT ![t] =
                                 IF raised /\ RaiseTarget(t) # "hfail"
                                 THEN <<>>
                                 ELSE Append(@, <<"exit", controller>>)]
            ELSE UNCHANGED <<entered, calls>>
    /\ UNCHANGED <<node, mode, rq, lifecycle>>

    /\ UNCHANGED tick
\* line 87: self.state = new_state
T87(t) ==
    /\ pc[t] = "t87"
    /\ state' = new_state[t]
    /\ rqAbort' = IF rqpc # "idle" /\ new_state[t] = PENDING
                  THEN <<SleepsBegun>>
                  ELSE rqAbort
    /\ Goto(t, "t88")
    /\ UNCHANGED <<controller, new_state, ret, mode, shutdown,
                   rqpc, rqTrace, rqSeen, life>>

    /\ UNCHANGED tick
\* line 88: self.controller = self.controllers[new_state]
T88(t) ==
    /\ pc[t] = "t88"
    /\ controller' = controllers[new_state[t]]
    /\ Goto(t, "t89")
    /\ UNCHANGED <<state, new_state, ret, mode, shutdown, rq, life>>

    /\ UNCHANGED tick
\* line 89: self.controller.enter(); transition_to_state returns, or enter()
\* raises
T89(t) ==
    /\ pc[t] = "t89"
    /\ IF lifecycle
       THEN /\ entered' = entered \cup {controller}
            /\ calls' = [calls EXCEPT ![t] = IF ret[t] \in {"hret", "c54"}
                                              THEN Append(@, <<"enter", controller>>)
                                              ELSE <<>>]
       ELSE UNCHANGED <<entered, calls>>
    /\ \/ /\ new_state' = [new_state EXCEPT ![t] = "none"]
          /\ ret' = [ret EXCEPT ![t] = "none"]
          /\ Goto(t, ret[t])
          /\ UNCHANGED shutdown
       \/ Raise(t)
    /\ UNCHANGED <<node, mode, rq, lifecycle>>

    /\ UNCHANGED tick
Transition(t) == T84(t) \/ T87(t) \/ T88(t) \/ T89(t)

InTransition(t) == pc[t] \in {"t84", "t87", "t88", "t89"}

\* ------------------------------------------------------------ __init__
\* line 51: self.controller = None
Ctor51 ==
    /\ pc["main"] = "c51"
    /\ controller' = "None"
    /\ Goto("main", "c52")
    /\ UNCHANGED <<state, new_state, ret, mode, shutdown, rq, life>>

    /\ UNCHANGED tick
\* line 52: self.state = FlightState.INIT
Ctor52 ==
    /\ pc["main"] = "c52"
    /\ state' = INIT
    /\ Goto("main", "c53")
    /\ UNCHANGED <<controller, new_state, ret, mode, shutdown, rq, life>>

    /\ UNCHANGED tick
\* a constructor that leaves the state machine in INIT
Ctor53Skip ==
    /\ pc["main"] = "c53"
    /\ Goto("main", "c54")
    /\ UNCHANGED <<node, new_state, ret, mode, shutdown, rq, life>>

    /\ UNCHANGED tick
\* line 53: self.transition_to_state(FlightState.PENDING)
Ctor53 ==
    /\ pc["main"] = "c53"
    /\ CallTransition("main", PENDING, "c54")
    /\ UNCHANGED <<node, mode, shutdown, rq, lifecycle, entered>>

    /\ UNCHANGED tick
\* __init__ returns; line 120 calls node.run()
Ctor54 ==
    /\ pc["main"] = "c54"
    /\ calls' = [calls EXCEPT !["main"] = <<>>]
    /\ Goto("main", "r112")
    /\ UNCHANGED <<node, new_state, ret, mode, shutdown, rq, lifecycle, entered>>

    /\ UNCHANGED tick
\* ------------------------------------------------ handle_state_message
\* a takeover rule that forgets to look at the state
TakesOverAnyState(m, s) == m \in GUIDED_MODES

\* line 67: mode in GUIDED_MODES and self.state == FlightState.PENDING
TakesOver(m, s) == m \in GUIDED_MODES /\ s = PENDING

\* an abort rule that forgets to look at the state
AbortsAnyState(m, s) == m \notin GUIDED_MODES

\* line 69: mode not in GUIDED_MODES and self.state != FlightState.PENDING
Aborts(m, s) == m \notin GUIDED_MODES /\ s # PENDING

\* the /mavros/state subscription's thread takes the next message and calls
\* the handler; line 65: mode = msg.mode
StateMessage ==
    /\ pc["mode"] = "idle"
    /\ ~shutdown
    /\ Busy < MaxBusy
    /\ \E m \in Modes : msg' = m
    /\ Goto("mode", "h67")
    /\ UNCHANGED <<node, new_state, ret, seen, shutdown, rq, life>>

    /\ ticks' = 0
    /\ runs' = <<>>
\* lines 67-70: the one read of self.state that decides the handler (`and`
\* reads it at line 67 for a guided mode, at line 69 for any other mode); it
\* raises AttributeError while line 52 has not run, which ends the handler
H67 ==
    /\ pc["mode"] = "h67"
    /\ IF state = "UNSET"
       THEN /\ Goto("mode", "hfail")
            /\ UNCHANGED <<seen, new_state, ret, calls>>
       ELSE /\ seen' = state
            /\ IF TakesOver(msg, state)
               THEN CallTransition("mode", SEEK, "hret")
               ELSE IF Aborts(msg, state)
               THEN CallTransition("mode", PENDING, "hret")
               ELSE /\ Goto("mode", "hret")
                    /\ UNCHANGED <<new_state, ret, calls>>
    /\ UNCHANGED <<node, msg, shutdown, rq, lifecycle, entered>>

    /\ UNCHANGED tick
\* handle_state_message returns ("hret"), or rospy logs the exception that
\* left it ("hfail"); the subscription's thread waits for the next message
HReturn ==
    /\ pc["mode"] \in {"hret", "hfail"}
    /\ msg' = "none"
    /\ seen' = "none"
    /\ calls' = [calls EXCEPT !["mode"] = <<>>]
    /\ Goto("mode", "idle")
    /\ UNCHANGED <<node, new_state, ret, shutdown, rq, lifecycle, entered>>

    /\ UNCHANGED tick
\* ------------------------------------------------ handle_track_message
\* a controller method invoked by thread t on controller c: it returns to r,
\* calls commander.transition_to_state, or raises
ControllerMethod(t, c, r) ==
    \/ \E req \in Requests(c) \cup {"none"} :
         /\ IF req = "none"
            THEN Goto(t, r) /\ UNCHANGED <<new_state, ret, calls>>
            ELSE CallTransition(t, req, r)
         /\ UNCHANGED shutdown
    \/ Raise(t) /\ UNCHANGED calls

\* the /tracker/track subscription's thread takes the next message and calls
\* the handler
TrackMessage ==
    /\ pc["track"] = "idle"
    /\ ~shutdown
    /\ Busy < MaxBusy
    /\ Goto("track", "k76")
    /\ UNCHANGED <<node, new_state, ret, mode, shutdown, rq, life>>

    /\ ticks' = 0
    /\ runs' = <<>>
\* line 76: self.controller.handle_track_message(msg), which raises
\* AttributeError while self.controller is unset or None
K76 ==
    /\ pc["track"] = "k76"
    /\ IF controller \in {"UNSET", "None"}
       THEN Raise("track") /\ UNCHANGED calls
       ELSE ControllerMethod("track", controller, "idle")
    /\ UNCHANGED <<node, mode, rq, lifecycle, entered>>

    /\ UNCHANGED tick
\* ----------------------------------------------------------------- run
\* no callback and no relinquish_control call is in progress
Quiet == pc["mode"] = "idle" /\ pc["track"] = "idle" /\ rqpc = "idle"

\* a loop body that sleeps without calling controller.run()
R113SkipRun ==
    /\ pc["main"] = "r113"
    /\ Goto("main", "r112")
    /\ UNCHANGED <<node, new_state, ret, mode, shutdown, rq, life, tick>>

\* line 112: while not rospy.is_shutdown(), evaluated on entry to run() and
\* after every sleep of line 114 (self.control_loop_rate.sleep())
R112 ==
    /\ pc["main"] = "r112"
    /\ shutdown \/ Busy < MaxBusy
    /\ Goto("main", IF shutdown THEN "exit" ELSE "r113")
    /\ IF shutdown
       THEN UNCHANGED tick
       ELSE IF ~Quiet
       THEN ticks' = 0 /\ runs' = <<>>
       ELSE IF ticks < MaxTicks
       THEN ticks' = ticks + 1 /\ UNCHANGED runs
       ELSE ticks' = 1 /\ runs' = <<>>
    /\ UNCHANGED <<node, new_state, ret, mode, shutdown, rq, life>>

\* line 113: self.controller.run()
R113 ==
    /\ pc["main"] = "r113"
    /\ ControllerMethod("main", controller, "r112")
    /\ IF ticks = 0
       THEN UNCHANGED tick
       ELSE IF pc'["main"] = "t84"
       THEN ticks' = 0 /\ runs' = <<>>
       ELSE runs' = Append(runs, <<state, controller>>) /\ UNCHANGED ticks
    /\ UNCHANGED <<node, mode, rq, lifecycle, entered>>

\* the external shutdown signal
Shutdown ==
    /\ ~shutdown
    /\ shutdown' = TRUE
    /\ UNCHANGED <<node, local, mode, rq, life>>

    /\ UNCHANGED tick
\* -------------------------------------------------- relinquish_control
\* a caller that holds the constructed node calls relinquish_control
RelinquishCall ==
    /\ rqpc = "idle"
    /\ CtorDone
    /\ Busy < MaxBusy
    /\ rqpc' = "q98"
    /\ UNCHANGED <<node, local, mode, shutdown, rqTrace, rqAbort, rqSeen, life>>

    /\ ticks' = 0
    /\ runs' = <<>>
\* line 98: self.vehicle.set_velocity_setpoint((0, 0, 0, 0))
Q98 ==
    /\ rqpc = "q98"
    /\ rqTrace' = Append(rqTrace, "stop")
    /\ rqpc' = "q102"
    /\ UNCHANGED <<node, local, mode, shutdown, rqAbort, rqSeen, life>>

    /\ UNCHANGED tick
\* a relinquish_control that starts polling without the hold-mode command
Q102Skip ==
    /\ rqpc = "q102"
    /\ rqpc' = "q105"
    /\ UNCHANGED <<node, local, mode, shutdown, rqTrace, rqAbort, rqSeen, life>>

    /\ UNCHANGED tick
\* line 102: self.vehicle.set_mode("POSHOLD")
Q102 ==
    /\ rqpc = "q102"
    /\ rqTrace' = Append(rqTrace, "POSHOLD")
    /\ rqpc' = "q105"
    /\ UNCHANGED <<node, local, mode, shutdown, rqAbort, rqSeen, life>>

    /\ UNCHANGED tick
\* a wait whose comparison with PENDING is inverted
KeepsWaitingInverted(s, down) == s = PENDING /\ ~down

\* a wait that only shutdown ends
KeepsWaitingUntilShutdown(s, down) == ~down

\* line 105: self.state != FlightState.PENDING and not rospy.is_shutdown()
KeepsWaiting(s, down) == s # PENDING /\ ~down

\* line 105: one evaluation of the loop condition
Q105 ==
    /\ rqpc = "q105"
    /\ rqTrace' = IF rqTrace[Len(rqTrace)] = "poll"
                  THEN rqTrace
                  ELSE Append(rqTrace, "poll")
    /\ IF KeepsWaiting(state, shutdown)
       THEN rqpc' = "q106" /\ UNCHANGED rqSeen
       ELSE rqpc' = "qret" /\ rqSeen' = state
    /\ UNCHANGED <<node, local, mode, shutdown, rqAbort, life>>

    /\ UNCHANGED tick
\* line 106: self.control_loop_rate.sleep()
Q106 ==
    /\ rqpc = "q106"
    /\ rqTrace' = IF SleepsDone < MaxSleeps
                  THEN Append(rqTrace, "sleep")
                  ELSE rqTrace
    /\ rqpc' = "q105"
    /\ UNCHANGED <<node, local, mode, shutdown, rqAbort, rqSeen, life>>

    /\ UNCHANGED tick
\* relinquish_control returns to its caller
QReturn ==
    /\ rqpc = "qret"
    /\ rqpc' = "idle"
    /\ rqTrace' = <<>>
    /\ rqAbort' = <<>>
    /\ rqSeen' = "none"
    /\ UNCHANGED <<node, local, mode, shutdown, life>>

    /\ UNCHANGED tick
TransitionStep == \E t \in Threads : Transition(t)

Next ==
    \/ Ctor51 \/ Ctor52 \/ Ctor53 \/ Ctor54
    \/ TransitionStep
    \/ StateMessage \/ H67 \/ HReturn
    \/ TrackMessage \/ K76
    \/ R112 \/ R113
    \/ Shutdown
    \/ RelinquishCall \/ Q98 \/ Q102 \/ Q105 \/ Q106 \/ QReturn

Spec == Init /\ [][Next]_vars

SpecLifecycle == InitLifecycle /\ [][Next]_vars

\* the steps of each thread; the scheduler lets every runnable thread run
MainStep ==
    Ctor51 \/ Ctor52 \/ Ctor53 \/ Ctor54 \/ R112 \/ R113 \/ Transition("main")

ModeStep == H67 \/ HReturn \/ Transition("mode")

TrackStep == K76 \/ Transition("track")

CallerStep == Q98 \/ Q102 \/ Q105 \/ Q106 \/ QReturn

\* the same program under a fair scheduler: a thread that can take a step
\* eventually takes one.  The arrival of messages, the shutdown signal and
\* the calls of relinquish_control are the environment's and not forced
SpecFair ==
    /\ Init
    /\ [][Next]_vars
    /\ WF_vars(MainStep)
    /\ WF_vars(ModeStep)
    /\ WF_vars(TrackStep)
    /\ WF_vars(CallerStep)

TypeOK ==
    /\ state \in FlightState \cup {"UNSET"}
    /\ controller \in Controllers \cup {"UNSET", "None"}
    /\ entered \subseteq Controllers
    /\ Busy <= MaxBusy

\* ================================================================ claims
\* C1: a non-guided mode message handled while the node is in SEEK, APPROACH,
\* DESCEND or LAND leaves the node in PENDING with the Pending controller
\* active when the handler returns
C1_AbortLeavesPending ==
    (pc["mode"] = "hret" /\ msg \in Modes \ GUIDED_MODES /\ seen \in ActivePhases)
        => (state = PENDING /\ controller = "PendingController")

\* C2: a guided mode message handled while the node is in PENDING calls
\* exit() on the Pending controller, then enter() on the Seek controller, and
\* leaves the node in SEEK with the Seek controller active
C2_TakeOverEntersSeek ==
    (pc["mode"] = "hret" /\ msg \in GUIDED_MODES /\ seen = PENDING)
        => /\ calls["mode"] = << <<"exit", "PendingController">>,
                                 <<"enter", "SeekController">> >>
           /\ state = SEEK
           /\ controller = "SeekController"

\* C3: a mode message that matches neither rule (guided while in an active
\* phase, or non-guided while in PENDING) makes the handler return without
\* changing the state, the controller, or calling transition_to_state
C3_OtherMessagesNoOp ==
    [][(/\ pc["mode"] = "h67"
        /\ pc'["mode"] # "h67"
        /\ \/ msg \in GUIDED_MODES /\ state \in ActivePhases
           \/ msg \notin GUIDED_MODES /\ state = PENDING)
       => (/\ pc'["mode"] = "hret"
           /\ seen' = state
           /\ UNCHANGED <<node, new_state, ret, life>>)]_vars

C3_Witness ==
    /\ pc["mode"] = "hret"
    /\ msg = "OFFBOARD"
    /\ seen = LAND
    /\ state = LAND
    /\ controller = "LandController"

\* C4: once the constructor has returned, self.state is never INIT (nor
\* unset): it is one of PENDING, SEEK, APPROACH, DESCEND, LAND
C4_NeverInitAfterCtor == CtorDone => state \in FlightState \ {INIT}

C4_Witness == CtorDone /\ state = LAND /\ pc["main"] = "r113"

\* C5: after the constructor, whenever no transition_to_state call is in
\* progress, self.controller is the registry entry of self.state
C5_ControllerMatchesState ==
    (CtorDone /\ \A t \in Threads : ~InTransition(t))
        => /\ state \in DOMAIN controllers
           /\ controller = controllers[state]

\* C6: every transition_to_state call invokes enter() on the registry entry
\* of its new_state, and the constructor's call, which finds no controller,
\* invokes no exit()
C6_TransitionEntersTarget ==
    [][\A t \in Threads :
          (pc[t] = "t89" /\ pc'[t] # "t89")
              => /\ controller = controllers[new_state[t]]
                 /\ ret[t] = "c54" => calls[t] = <<>>]_vars

\* C7: a track message reaches a controller only while that controller is
\* entered: its enter() has run and its exit() has not
C7_TrackReachesEnteredController ==
    [][(pc["track"] = "k76" /\ pc'["track"] # "k76" /\ controller \in Controllers)
          => controller \in entered]_vars

\* the threads that are inside a callback, a control-loop tick or a poll of
\* relinquish_control
Executing ==
    {t \in {"mode", "track"} : pc[t] # "idle"}
        \cup (IF CtorDone /\ ~Idle("main") THEN {"main"} ELSE {})
        \cup (IF rqpc \in {"q98", "q102", "q105", "qret"} THEN {"caller"} ELSE {})

\* C8: the mode callback, the track callback, the control-loop tick and
\* relinquish_control are serialized: at most one of them executes at a time
C8_Serialized == Cardinality(Executing) <= 1

\* C9: relinquish_control commands the zero velocity setpoint, then POSHOLD,
\* before it first polls self.state; nothing precedes them
C9_StopThenHoldFirst ==
    /\ rqpc = "q102" => rqTrace = <<"stop">>
    /\ rqpc \in {"q105", "q106", "qret"}
          => /\ Len(rqTrace) >= 2
             /\ rqTrace[1] = "stop"
             /\ rqTrace[2] = "POSHOLD"
             /\ \A i \in 3..Len(rqTrace) : rqTrace[i] \in {"poll", "sleep"}

C9_Witness ==
    /\ rqpc = "q106"
    /\ rqTrace = <<"stop", "POSHOLD", "poll">>
    /\ state = DESCEND

\* C10: relinquish_control returns on the first poll that follows the write
\* of PENDING to self.state: it has slept exactly the sleeps it had begun
\* when PENDING was written, and none at all when the node was PENDING at
\* the call
C10_ReturnsOnPending ==
    (rqpc = "qret" /\ rqSeen = PENDING)
        => /\ rqTrace[Len(rqTrace)] = "poll"
           /\ SleepsDone = (IF rqAbort = <<>> THEN 0 ELSE rqAbort[1])

C10_Witness ==
    /\ rqpc = "qret"
    /\ rqSeen = PENDING
    /\ rqAbort = <<2>>
    /\ SleepsDone = 2
    /\ msg = "POSHOLD"
    /\ seen = DESCEND

\* C11: each iteration of the control loop calls run() exactly once, on the
\* active controller, and changes neither self.state nor self.controller: N
\* undisturbed iterations make N run() calls, all on the controller and in
\* the state the node still has
C11_TickRunsActiveOnce ==
    /\ Len(runs) = (IF pc["main"] = "r113" /\ ticks > 0 THEN ticks - 1 ELSE ticks)
    /\ \A i \in 1..Len(runs) : runs[i] = <<state, controller>>

C11_Witness ==
    /\ ticks = 3
    /\ runs = <<<<APPROACH, "ApproachController">>,
                <<APPROACH, "ApproachController">>,
                <<APPROACH, "ApproachController">>>>
    /\ pc["main"] = "r112"
    /\ state = APPROACH
    /\ controller = "ApproachController"

\* C12: when the old controller's exit() raises during
\* transition_to_state(new), the bookkeeping still completes: afterwards
\* self.state is new and self.controller is controllers[new]
C12_FailedExitStillTransitions ==
    [][\A t \in Threads :
          (pc[t] = "t84" /\ pc'[t] \notin {"t84", "t87"})
              => /\ state' = new_state[t]
                 /\ controller' = controllers[new_state[t]]]_vars

\* C13: relinquish_control returns only from a poll that read PENDING or
\* found shutdown requested, and a poll that finds shutdown requested
\* returns whatever the state
C13_ReturnsOnlyOnPendingOrShutdown ==
    [][/\ (rqpc # "qret" /\ rqpc' = "qret")
            => /\ rqpc = "q105"
               /\ state = PENDING \/ shutdown
               /\ rqSeen' = state
       /\ (rqpc = "q105" /\ rqpc' # "q105" /\ shutdown) => rqpc' = "qret"]_vars

C13_Witness ==
    /\ rqpc = "qret"
    /\ rqSeen = DESCEND
    /\ state = DESCEND
    /\ shutdown
    /\ SleepsDone = 2

\* the main thread is inside run()
InRun ==
    \/ pc["main"] \in {"r112", "r113"}
    \/ InTransition("main") /\ ret["main"] = "r112"

\* C14: the control loop ends only when shutdown has been requested
C14_LoopEndsOnlyOnShutdown ==
    [][(InRun /\ pc'["main"] \in {"exit", "rfail"}) => shutdown]_vars

\* C15: when a mode handler has returned from a non-guided message and no
\* other handler, tick or transition is in progress, the state is PENDING
C15_NoAuthorityMeansPending ==
    [][(/\ pc["mode"] = "hret"
        /\ pc'["mode"] = "idle"
        /\ msg \in Modes \ GUIDED_MODES
        /\ CtorDone
        /\ pc["track"] = "idle"
        /\ pc["main"] = "r112"
        /\ rqpc = "idle")
       => state = PENDING]_vars

\* C16: once the mode handler has aborted an active phase to PENDING on a
\* non-guided message while relinquish_control waits, relinquish_control
\* eventually returns
C16_RelinquishEventuallyReturns ==
    (/\ rqpc \in {"q105", "q106"}
     /\ pc["mode"] = "hret"
     /\ msg \in Modes \ GUIDED_MODES
     /\ seen \in ActivePhases
     /\ state = PENDING
     /\ controller = "PendingController")
        ~> (rqpc = "qret")

\* C17: no mode or track message is being handled while the main thread is
\* still inside the constructor
C17_NoHandlerDuringCtor ==
    (pc["mode"] # "idle" \/ pc["track"] # "idle") => CtorDone

\* C18: a transition called by the mode handler targets SEEK or PENDING: SEEK
\* only when the handler read PENDING on a guided message, PENDING only when
\* it read another state on a non-guided one; line 87 writes that target, so
\* the mode handler never writes APPROACH, DESCEND or LAND
C18_TakeoverOnlyFromPending ==
    InTransition("mode")
        => /\ new_state["mode"] \in {SEEK, PENDING}
           /\ new_state["mode"] = SEEK
                 => (seen = PENDING /\ msg \in GUIDED_MODES)
           /\ new_state["mode"] = PENDING
                 => (seen # PENDING /\ msg \in Modes \ GUIDED_MODES)

C18_Witness ==
    /\ pc["mode"] = "t88"
    /\ state = SEEK
    /\ seen = PENDING
    /\ msg = "OFFBOARD"
    /\ CtorDone

\* C19: exit() is only called on a controller that is entered, and enter()
\* only on one that is not
C19_EnterExitAlternate ==
    [][\A t \in Threads :
          /\ (pc[t] = "t84" /\ pc'[t] # "t84" /\ controller # "None")
                => controller \in entered
          /\ (pc[t] = "t89" /\ pc'[t] # "t89")
                => controller \notin entered]_vars

\* C20: while relinquish_control has commanded the stop and the state is not
\* yet PENDING, the active controller gets no run() and no
\* handle_track_message call
C20_NoCallsDuringFailsafe ==
    [][(/\ rqpc \in {"q102", "q105", "q106"}
        /\ state \in ActivePhases
        /\ controller \in Controllers \ {"PendingController"})
       => /\ ~(pc["main"] = "r113" /\ pc'["main"] # "r113")
          /\ ~(pc["track"] = "k76" /\ pc'["track"] # "k76")]_vars

====
